---- MODULE Spec2Model ----
(***************************************************************************)
(* Model of pyoneer3/graphics.py: the UI element tree (parenting, update,  *)
(* prioritised drawing), event routing (UIElement.handle_event) and the    *)
(* ScrollingFrame scroll handler.                                          *)
(*                                                                         *)
(* One ScrollingFrame, "sf", receives the events; the plain UIElements     *)
(* e1..e3 and the Scenes "scene" and "scene2" (both bound to the one        *)
(* display surface of the Screen) make up the tree that is parented and    *)
(* drawn.  A surface is a record [w, h, blits]: its size and the sequence  *)
(* of elements composited onto it since it was created / last reset.       *)
(***************************************************************************)
EXTENDS Integers, Sequences, FiniteSets, TLC

VARIABLES
    parent,         \* element -> its parent node, or None            (self.parent)
    children,       \* node -> sequence of elements                   (self.children)
    priority,       \* element -> render priority                     (self.priority)
    visible,        \* element -> BOOLEAN                             (self.visible)
    rel_pos,        \* element -> <<xScale, xOffset, yScale, yOffset>> (self.rel_pos),
                    \*   the two scales in halves: 1 is 0.5, 2 is 1.0
    surf,           \* node -> surface or None                        (self.surf)
    c_surf,         \* element -> surface snapshot or None            (self.c_surf)
    rect,           \* element -> [x, y, w, h] or None                (self.rect)
    scene_active,   \* scene -> its active flag                       (Scene.active)
    active,         \* sf.active
    handlers,       \* sf.handlers: the four single slots
    uevent,         \* sf.handlers['uevent']: the universal handler list
    mouse_inside,   \* sf.mouse_inside
    mouse_over,     \* sf.mouse_over
    scrollable,     \* sf.scrollable
    scroll_pos,     \* sf.scroll_pos
    scroll_limits,  \* sf.scroll_limits, <<w, h>>
    window_size,    \* sf.window_size, <<xScale, xOffset, yScale, yOffset>>
    window,         \* sf.window: [w, h, view] or None; view = offset the content is blitted at
    scrollbar_surf, \* sf.scrollbar_surf: [w, h] or None
    event,          \* the event given to handle_event, when the last step was such a call
    fired,          \* the handler invocations <<slot, handler>> that call made, in order
    raised,         \* the exception the last operation ended with, or "none"
    lastEdge,       \* the most recent of the menter / mexit slots to have fired ("none" at first)
    lastMotionIn,   \* whether the most recent motion event given to handle_event was inside rect
    attachOrder,    \* node -> elements in the order set_parent attached them (unparent removes)
    drawn,          \* node -> the children drawn over it, in order, when the last step was a draw pass
    blitted,        \* the blits <<source, target>> of that pass, in order
    drawcall,       \* the drawing method called in the last step and the node it was called on
    name,           \* element -> its name                            (self.name)
    returned,       \* the query made in the last step, its arguments and what it returned
    scenes,         \* Screen.scenes: the registered scenes, as the last render sorted them
    scene_priority, \* scene -> its priority                          (Scene.priority)
    scene_calls,    \* the scenes whose draw() the last step's render invoked, in order
    text,           \* the Text element's _text: its lines, each the widths of its words
    anchor,         \* the Text element's anchor: 0 = top left, 1 = center
    max_width,      \* the width of the Text element's surface
    space,          \* the width the font gives a space
    render_list,    \* the lines render_text laid out last: [words: <<[w, x]>>, off2]
    kind,           \* element -> the class it was constructed as
    fill_color      \* element -> its fill_color                      (self.fill_color)

vars == <<parent, children, priority, visible, rel_pos, surf, c_surf, rect, scene_active,
          active, handlers, uevent, mouse_inside, mouse_over, scrollable,
          scroll_pos, scroll_limits, window_size, window, scrollbar_surf,
          event, fired, raised, lastEdge, lastMotionIn, attachOrder, drawn,
          blitted, drawcall, name, returned, scenes, scene_priority, scene_calls,
          text, anchor, max_width, space, render_list, kind, fill_color>>

treeVars  == <<parent, children, priority, visible, rel_pos, surf, c_surf, rect, scene_active>>
textVars  == <<text, anchor, max_width, space, render_list>>
ctorVars  == <<kind, fill_color>>
extVars   == <<name, scenes, scene_priority, textVars, ctorVars>>
frameVars == <<active, handlers, uevent, mouse_inside, mouse_over, scrollable,
               scroll_pos, scroll_limits, window_size, window, scrollbar_surf>>

None == [none |-> TRUE]     \* Python's None where a surface, rect or position is expected
Nil == "None"               \* Python's None where a node or a handler is expected

\* ---------------------------------------------------------------- bounds
MaxUHandlers == 2       \* longest universal handler list
MaxChildren == 2        \* longest children list
MaxBlits == 2           \* most blits kept on a surface that no pass resets
MaxPriority == 2        \* priorities are 1..MaxPriority
MaxWords == 4           \* most words on a line of text
MaxLines == 2           \* most lines in a text

\* ------------------------------------------------------ program constants
ScrollSpeed == 10
ScrollbarPadding == 4
ScrollbarWidth == 2
DefaultPriority == 1

\* ----------------------------------------------------------------- inputs
Scene == "scene"
Scene2 == "scene2"
Scenes == {Scene, Scene2}
Registered == <<Scene, Scene2>>
Frame == "sf"
Plain == {"e1", "e2", "e3"}
Elems == Plain \cup {Frame}
Nodes == Elems \cup Scenes

ScreenSizes  == {<<40, 20>>, <<40, 40>>, <<40, 70>>}
ScrollLimits == {<<30, 55>>, <<30, 32>>}
WindowSizes  == {<<0, 30, 1, 0>>, <<0, 30, 0, 25>>}
Points       == {<<10, 10>>, <<10, 30>>}
Buttons      == {1, 4, 5}
UserU        == {"u1"}
Slots        == {"mbd", "mover", "menter", "mexit"}

\* The handler the model binds in each single slot: the frame's own _menter and
\* _mexit, and an application handler for the other two.
SlotHandler ==
    [mbd |-> "on_mbd", mover |-> "on_mover", menter |-> "_menter", mexit |-> "_mexit"]

MOUSEBUTTONDOWN == "MOUSEBUTTONDOWN"
MOUSEMOTION == "MOUSEMOTION"
KEYDOWN == "KEYDOWN"

Events ==
    [type : {MOUSEBUTTONDOWN}, button : Buttons, pos : Points]
        \cup [type : {MOUSEMOTION}, button : {0}, pos : Points]
        \cup [type : {KEYDOWN}, button : {0}, pos : {<<0, 0>>}]

NoDraw == [op |-> "none", on |-> "none"]
Names == {"", "a", "b"}

\* The element classes, and the values a fill_color attribute takes: a colour,
\* None, or the number that a constructor passed in its place.
Kinds == {"UIElement", "Option", "Text", "ScrollingFrame", "Image", "Sprite"}
Black == [color |-> <<0, 0, 0>>]
Red == [color |-> <<255, 0, 0>>]
Number(v) == [number |-> v]

\* Relative positions (scales in halves) and surface sizes for nested elements.
Positions == {<<0, 10, 0, 10>>, <<1, 5, 1, 5>>, <<1, -8, 1, -8>>}
Sizes == {<<100, 100>>, <<11, 15>>}

\* Texts: a word is given by the width the font renders it at.
WordWidths == {10}
SpaceWidths == {2, 3}
TextWidths == 20..36
TextLines == UNION {[1..k -> WordWidths] : k \in 0..MaxWords}
Texts == UNION {[1..k -> TextLines] : k \in 0..MaxLines}
NoQuery == [op |-> "none"]
NoEvent == [type |-> "none", button |-> 0, pos |-> <<0, 0>>]

Min(a, b) == IF a <= b THEN a ELSE b

Surface(size) == [w |-> size[1], h |-> size[2], blits |-> <<>>]

\* ------------------------------------------------------- coordinate model
to_simple(coord, s) == <<coord[2] + s.w * coord[1], coord[4] + s.h * coord[3]>>

collidepoint(r, pos) ==
    /\ r.x <= pos[1] /\ pos[1] < r.x + r.w
    /\ r.y <= pos[2] /\ pos[2] < r.y + r.h

\* to_simple for a coordinate whose scales are given in halves: twice the
\* position it resolves to, so that a half pixel is kept.
to_simple_x2(coord, s) ==
    <<2 * coord[2] + s.w * coord[1], 2 * coord[4] + s.h * coord[3]>>

\* int(v) of the number whose double is v2: Python truncates toward zero.
int_floor_x2(v2) == IF v2 >= 0 THEN v2 \div 2 ELSE -((1 - v2) \div 2)

int_x2(v2) == IF v2 >= 0 THEN v2 \div 2 ELSE -((-v2) \div 2)

\* The chain of resolved positions from e up to the Scene, summed (doubled);
\* None when an ancestor has no parent or the parent has no surface (the call
\* raises).
RECURSIVE position_chain_x2(_)
position_chain_x2(e) ==
    IF e \notin Elems THEN <<0, 0>>
    ELSE IF parent[e] = Nil THEN None
    ELSE IF surf[parent[e]] = None THEN None
    ELSE LET up == position_chain_x2(parent[e])
             me == to_simple_x2(rel_pos[e], surf[parent[e]])
         IN IF up = None THEN None ELSE <<me[1] + up[1], me[2] + up[2]>>

calculate_absolute_position(e) ==
    LET sum == position_chain_x2(e)
    IN IF sum = None THEN None ELSE <<int_x2(sum[1]), int_x2(sum[2])>>

\* ------------------------------------------------- parenting (UIElement)
\* set_parent appends to the new parent's list and leaves any old list alone.
set_parent_children(e, p) == [children EXCEPT ![p] = Append(@, e)]

\* list.remove(x): the list without the first occurrence of x.
RECURSIVE remove(_, _)
remove(s, x) ==
    IF s = <<>> THEN <<>>
    ELSE IF Head(s) = x THEN Tail(s)
    ELSE <<Head(s)>> \o remove(Tail(s), x)

Occurs(s, x) == \E i \in 1..Len(s) : s[i] = x

\* The elements reachable from n through the children lists.
RECURSIVE Below(_)
Below(n) ==
    LET kids == {children[n][i] : i \in 1..Len(children[n])}
    IN kids \cup UNION {Below(k) : k \in kids}

\* The nodes above e along the parent references.
RECURSIVE Ancestors(_)
Ancestors(e) ==
    IF parent[e] = Nil THEN {}
    ELSE {parent[e]} \cup (IF parent[e] \in Elems THEN Ancestors(parent[e]) ELSE {})

\* get_descendants (Scene and UIElement alike): a copy of the children list,
\* extended with each child's get_descendants() in turn.
RECURSIVE get_descendants_preorder(_)
RECURSIVE preorder_each(_)
preorder_each(kids) ==
    IF kids = <<>> THEN <<>>
    ELSE <<Head(kids)>> \o get_descendants_preorder(Head(kids)) \o preorder_each(Tail(kids))

get_descendants_preorder(n) == preorder_each(children[n])

RECURSIVE get_descendants(_)
RECURSIVE extend_each(_, _)
extend_each(descendants, kids) ==
    IF kids = <<>> THEN descendants
    ELSE extend_each(descendants \o get_descendants(Head(kids)), Tail(kids))

get_descendants(n) == extend_each(children[n], children[n])

\* ------------------------------------------------ ScrollingFrame.update
\* The height the frame's window_size resolves to against the Scene's surface,
\* the only parent the frame is given here.
ViewportH == to_simple(window_size, surf[Scene])[2]

scrollbar_height(wh) ==
    (wh * (wh - 2 * ScrollbarPadding)) \div scroll_limits[2]

\* ----------------------------------------------- event routing (sf only)
\* The part of the frame a handle_event call can change, threaded through the
\* call: st.raised # "none" means an exception is propagating.
FrameState ==
    [mouse_inside |-> mouse_inside, mouse_over |-> mouse_over,
     scroll_pos |-> scroll_pos, window |-> window,
     fired |-> <<>>, raised |-> "none", edge |-> lastEdge]

scroll_up_unclamped(s) == s + ScrollSpeed

scroll_up(s) == s + Min(ScrollSpeed, -s)

scroll_down_unclamped(s, wh) ==
    IF wh < scroll_limits[2] THEN s - ScrollSpeed ELSE s

scroll_down(s, wh) ==
    IF wh < scroll_limits[2]
    THEN s - Min(ScrollSpeed, scroll_limits[2] + s - wh)
    ELSE s

scroll(st) == [st EXCEPT !.window = [@ EXCEPT !.view = st.scroll_pos]]

scroll_handler(st, ev) ==
    IF ~st.mouse_over \/ ~scrollable THEN st
    ELSE IF parent[Frame] = Nil THEN [st EXCEPT !.raised = "AttributeError"]
    ELSE IF surf[parent[Frame]] = None THEN st
    ELSE IF ev.type # MOUSEBUTTONDOWN THEN st
    ELSE LET wh == to_simple(window_size, surf[parent[Frame]])[2]
             s  == IF ev.button = 4 THEN scroll_up(st.scroll_pos)
                   ELSE IF ev.button = 5 THEN scroll_down(st.scroll_pos, wh)
                   ELSE st.scroll_pos
         IN scroll([st EXCEPT !.scroll_pos = s])

\* Invoke handler h, bound in `slot`.
call(st, slot, h, ev) ==
    LET st1 == [st EXCEPT !.fired = Append(@, <<slot, h>>),
                          !.edge = IF slot \in {"menter", "mexit"} THEN slot ELSE @]
    IN CASE h = "_menter" -> [st1 EXCEPT !.mouse_over = TRUE]
         [] h = "_mexit" -> [st1 EXCEPT !.mouse_over = FALSE]
         [] h = "scroll_handler" -> scroll_handler(st1, ev)
         [] OTHER -> st1

\* `if self.handlers[slot]: self.handlers[slot](self, event)`
fire(st, slot, ev) ==
    IF handlers[slot] = Nil THEN st ELSE call(st, slot, handlers[slot], ev)

button_down_any_button(st, ev) ==
    IF rect[Frame] = None THEN [st EXCEPT !.raised = "AttributeError"]
    ELSE IF collidepoint(rect[Frame], ev.pos) THEN fire(st, "mbd", ev)
    ELSE st

button_down(st, ev) ==
    IF ev.button # 1 THEN st
    ELSE IF rect[Frame] = None THEN [st EXCEPT !.raised = "AttributeError"]
    ELSE IF collidepoint(rect[Frame], ev.pos) THEN fire(st, "mbd", ev)
    ELSE st

motion_exit_keeps_flag(st, ev) ==
    IF rect[Frame] = None THEN [st EXCEPT !.raised = "AttributeError"]
    ELSE IF collidepoint(rect[Frame], ev.pos)
         THEN LET st1 == IF ~st.mouse_inside
                         THEN fire([st EXCEPT !.mouse_inside = TRUE], "menter", ev)
                         ELSE st
              IN fire(st1, "mover", ev)
         ELSE IF st.mouse_inside THEN fire(st, "mexit", ev) ELSE st

motion(st, ev) ==
    IF rect[Frame] = None THEN [st EXCEPT !.raised = "AttributeError"]
    ELSE IF collidepoint(rect[Frame], ev.pos)
         THEN LET st1 == IF ~st.mouse_inside
                         THEN fire([st EXCEPT !.mouse_inside = TRUE], "menter", ev)
                         ELSE st
              IN fire(st1, "mover", ev)
         ELSE IF st.mouse_inside
              THEN fire([st EXCEPT !.mouse_inside = FALSE], "mexit", ev)
              ELSE st

uevents_first_only(st, hs, ev) ==
    IF hs = <<>> \/ st.raised # "none" THEN st
    ELSE call(st, "uevent", Head(hs), ev)

RECURSIVE uevents(_, _, _)
uevents(st, hs, ev) ==
    IF hs = <<>> \/ st.raised # "none" THEN st
    ELSE uevents(call(st, "uevent", Head(hs), ev), Tail(hs), ev)

dispatch(st, ev) ==
    LET st1 == CASE ev.type = MOUSEBUTTONDOWN -> button_down(st, ev)
                 [] ev.type = MOUSEMOTION -> motion(st, ev)
                 [] OTHER -> st
    IN uevents(st1, uevent, ev)

handle_event_ignoring_active(st, ev) == dispatch(st, ev)

handle_event(st, ev) == IF ~active THEN st ELSE dispatch(st, ev)

\* ------------------------------------------------------------ draw passes
\* list.sort(key=priority): a stable sort, ascending.
RECURSIVE insert_sorted(_, _)
insert_sorted(s, x) ==
    IF s = <<>> THEN <<x>>
    ELSE IF priority[s[Len(s)]] <= priority[x] THEN Append(s, x)
    ELSE Append(insert_sorted(SubSeq(s, 1, Len(s) - 1), x), s[Len(s)])

RECURSIVE sort_by_priority(_)
sort_by_priority(s) ==
    IF s = <<>> THEN <<>>
    ELSE insert_sorted(sort_by_priority(SubSeq(s, 1, Len(s) - 1)), s[Len(s)])

\* What a draw pass changes, threaded through the pass: ds.raised # "none"
\* means an exception is propagating.
DrawState ==
    [children |-> children, surf |-> surf,
     drawn |-> [n \in Nodes |-> <<>>], log |-> <<>>, raised |-> "none",
     scenes |-> scenes, scene_calls |-> <<>>]

\* target.surf.blit(e.surf, ...).  The Scenes share the display surface, so a
\* blit onto one Scene's surface shows on every Scene's.
blit(ds, target, e) ==
    [ds EXCEPT !.surf = [n \in Nodes |->
                            IF n = target \/ (n \in Scenes /\ target \in Scenes)
                            THEN [@[n] EXCEPT !.blits = Append(@, e)]
                            ELSE @[n]],
               !.log = Append(@, <<e, target>>)]

\* UIElement.draw
draw(e, ds) ==
    IF ds.raised # "none" THEN ds
    ELSE IF ds.surf[e] = None \/ parent[e] = Nil THEN [ds EXCEPT !.raised = "AssertionError"]
    ELSE IF ~visible[e] THEN ds
    ELSE IF ds.surf[parent[e]] = None THEN [ds EXCEPT !.raised = "AttributeError"]
    ELSE blit(ds, parent[e], e)

RECURSIVE draw_seq(_, _)
RECURSIVE draw_each(_, _, _)

\* `for child in self.children: child.draw_seq()`
draw_each(n, kids, ds) ==
    IF kids = <<>> \/ ds.raised # "none" THEN ds
    ELSE draw_each(n, Tail(kids),
                   draw_seq(Head(kids), [ds EXCEPT !.drawn[n] = Append(@, Head(kids))]))

\* UIElement.draw_children(reset_surf=True)
draw_children(e, ds) ==
    IF ds.surf[e] = None THEN [ds EXCEPT !.raised = "AssertionError"]
    ELSE IF ~visible[e] THEN ds
    ELSE IF c_surf[e] = None THEN [ds EXCEPT !.raised = "AttributeError"]
    ELSE LET sorted == sort_by_priority(ds.children[e])
             ds1 == [ds EXCEPT !.surf[e] = c_surf[e], !.children[e] = sorted]
         IN draw_each(e, sorted, ds1)

\* UIElement.draw_seq
draw_seq(e, ds) == draw(e, draw_children(e, ds))

\* Scene.draw
scene_draw(sc, ds) ==
    LET sorted == sort_by_priority(ds.children[sc])
    IN draw_each(sc, sorted, [ds EXCEPT !.children[sc] = sorted])

\* scenes.sort(key=priority): stable, ascending, in place.
RECURSIVE insert_scene(_, _)
insert_scene(s, x) ==
    IF s = <<>> THEN <<x>>
    ELSE IF scene_priority[s[Len(s)]] <= scene_priority[x] THEN Append(s, x)
    ELSE Append(insert_scene(SubSeq(s, 1, Len(s) - 1), x), s[Len(s)])

RECURSIVE sort_scenes(_)
sort_scenes(s) ==
    IF s = <<>> THEN <<>>
    ELSE insert_scene(sort_scenes(SubSeq(s, 1, Len(s) - 1)), s[Len(s)])

\* `for scene in self.scenes: if scene and scene.active: scene.draw()`
RECURSIVE draw_scenes(_, _)
draw_scenes(ss, ds) ==
    IF ss = <<>> \/ ds.raised # "none" THEN ds
    ELSE draw_scenes(Tail(ss),
                     IF scene_active[Head(ss)]
                     THEN scene_draw(Head(ss),
                                     [ds EXCEPT !.scene_calls = Append(@, Head(ss))])
                     ELSE ds)

\* Screen.render: fill the display surface, sort the scenes, draw the active ones.
render(ds) ==
    LET filled == [ds EXCEPT !.surf = [n \in Nodes |->
                                         IF n \in Scenes THEN [@[n] EXCEPT !.blits = <<>>]
                                         ELSE @[n]]]
        sorted == sort_scenes(ds.scenes)
    IN draw_scenes(sorted, [filled EXCEPT !.scenes = sorted])

\* ------------------------------------------------------------- child lookup
\* UIElement.get_child_of_name(name): what it returns and the exception it ends
\* with.  The loop variable is `name`, so the parameter is rebound to the first
\* child; `child` is bound nowhere, and evaluating child.name raises NameError
\* in the first iteration.
get_child_of_name(e, nm) ==
    IF children[e] = <<>>
    THEN [value |-> Nil, raised |-> "none"]
    ELSE [value |-> Nil, raised |-> "NameError"]

\* ------------------------------------------------------------- text layout
\* Text.render_text with wrap enabled.  Half widths occur in the comparison and
\* in the centering offset, which is therefore kept doubled (off2).  A layout
\* state: the running x, the current line (line_surfs), the lines flushed so
\* far (render_list), whether word_h is bound yet, the exception raised.
text_pos == IF anchor = 0 THEN 0 ELSE max_width \div 2

LayoutStart ==
    [x |-> text_pos, cur |-> <<>>, off2 |-> 0, out |-> <<>>, bound |-> FALSE,
     raised |-> "none"]

\* `render_list.append(line_surfs)`, then x back to the start of a line.
flush_line(st) ==
    [st EXCEPT !.out = Append(@, [words |-> st.cur, off2 |-> st.off2]),
               !.cur = <<>>, !.off2 = 0, !.x = text_pos]

\* One iteration of the loop over the words of a line; `last` is j = len(line)-1.
place_word(st, w, last) ==
    LET st1 == IF 2 * st.x + w + st.off2 >= 2 * max_width THEN flush_line(st) ELSE st
    IN [st1 EXCEPT !.cur = Append(@, [w |-> w, x |-> st1.x]),
                   !.off2 = IF anchor = 1
                            THEN @ - (w + (IF last THEN 0 ELSE space))
                            ELSE @,
                   !.x = @ + w + space,
                   !.bound = TRUE]

RECURSIVE place_words(_, _, _)
place_words(st, line, j) ==
    IF j > Len(line) THEN st
    ELSE place_words(place_word(st, line[j], j = Len(line)), line, j + 1)

\* One iteration of the loop over the lines: the words, the flush, `y += word_h`.
layout_line(st, line) ==
    LET st1 == flush_line(place_words(st, line, 1))
    IN IF st1.bound THEN st1 ELSE [st1 EXCEPT !.raised = "UnboundLocalError"]

RECURSIVE layout_lines(_, _)
layout_lines(st, lines) ==
    IF lines = <<>> \/ st.raised # "none" THEN st
    ELSE layout_lines(layout_line(st, Head(lines)), Tail(lines))

render_text(t) == layout_lines(LayoutStart, t)

\* ------------------------------------------------------------- constructors
\* UIElement.__init__(pos, surf, fill_color, render_priority): the two
\* attributes the last two parameters end in.  None and 0 are false.
UIElement_init(fc, rp) ==
    [fill_color |-> IF fc = None \/ fc = Number(0) THEN Black ELSE fc,
     priority |-> rp]

\* The constructor of each class, down to its super().__init__ call: UIElement,
\* Option and Text pass fill_color and render_priority on; ScrollingFrame and
\* Image (and Sprite through Image) pass render_priority as the third
\* positional argument and nothing as the fourth.
construct(k, fc, rp) ==
    IF k \in {"UIElement", "Option", "Text"}
    THEN UIElement_init(fc, rp)
    ELSE UIElement_init(Number(rp), DefaultPriority)

\* ------------------------------------------------------------- initial state
\* The attributes the constructors set that only the queries below read.
InitExt ==
    /\ name = [e \in Elems |-> ""]
    /\ returned = NoQuery
    /\ scenes = Registered
    /\ scene_priority = [sc \in Scenes |-> DefaultPriority]
    /\ scene_calls = <<>>
    /\ kind = [e \in Elems |-> IF e = Frame THEN "ScrollingFrame" ELSE "UIElement"]
    /\ fill_color = [e \in Elems |->
                        construct(kind[e], None, DefaultPriority).fill_color]
    /\ text = <<>>
    /\ anchor = 1
    /\ max_width = 30
    /\ space = 2
    /\ render_list = <<>>

\* The state after the constructors: the Scene bound to the screen surface, the
\* plain elements built with a surface, the frame built without one.
Init ==
    /\ parent = [e \in Elems |-> Nil]
    /\ children = [n \in Nodes |-> <<>>]
    /\ priority = [e \in Elems |-> DefaultPriority]
    /\ visible = [e \in Elems |-> TRUE]
    /\ rel_pos = [e \in Elems |-> <<0, 5, 0, 5>>]
    /\ \E sz \in ScreenSizes :
          surf = [n \in Nodes |-> IF n \in Scenes THEN Surface(sz)
                                  ELSE IF n = Frame THEN None
                                  ELSE Surface(<<10, 10>>)]
    /\ c_surf = [e \in Elems |-> None]
    /\ rect = [e \in Elems |-> None]
    /\ scene_active = [sc \in Scenes |-> FALSE]
    /\ active = TRUE
    /\ handlers = [mbd |-> Nil, mover |-> Nil, menter |-> "_menter", mexit |-> "_mexit"]
    /\ uevent = <<"scroll_handler">>
    /\ mouse_inside = FALSE
    /\ mouse_over = FALSE
    /\ scrollable = TRUE
    /\ scroll_pos = 0
    /\ scroll_limits \in ScrollLimits
    /\ window_size \in WindowSizes
    /\ window = None
    /\ scrollbar_surf = None
    /\ event = NoEvent
    /\ fired = <<>>
    /\ raised = "none"
    /\ lastEdge = "none"
    /\ lastMotionIn = FALSE
    /\ attachOrder = [n \in Nodes |-> <<>>]
    /\ drawn = [n \in Nodes |-> <<>>]
    /\ blitted = <<>>
    /\ drawcall = NoDraw
    /\ InitExt

\* What every operation other than handle_event leaves of the last call's record.
NoCall == event' = NoEvent /\ fired' = <<>>

\* What every operation other than a query leaves of the last query's record.
NoReturn == returned' = NoQuery

\* What every operation other than a draw pass leaves of the last pass's record.
NoPass ==
    /\ drawn' = [n \in Nodes |-> <<>>]
    /\ blitted' = <<>>
    /\ drawcall' = NoDraw
    /\ scene_calls' = <<>>

\* ------------------------------------------------------------------ actions
SetParent(e, p) ==
    /\ p \notin Below(e) \cup {e}
    /\ Len(children[p]) < MaxChildren
    /\ parent' = [parent EXCEPT ![e] = p]
    /\ children' = set_parent_children(e, p)
    /\ attachOrder' = [attachOrder EXCEPT ![p] = Append(@, e)]
    /\ raised' = "none"
    /\ NoCall
    /\ UNCHANGED extVars
    /\ NoReturn
    /\ UNCHANGED <<priority, visible, rel_pos, surf, c_surf, rect, scene_active, frameVars,
                   lastEdge, lastMotionIn>>
    /\ NoPass

Unparent(e) ==
    /\ NoCall
    /\ UNCHANGED extVars
    /\ NoReturn
    /\ UNCHANGED <<priority, visible, rel_pos, surf, c_surf, rect, scene_active, frameVars,
                   lastEdge, lastMotionIn>>
    /\ NoPass
    /\ IF parent[e] = Nil
       THEN raised' = "AttributeError" /\ UNCHANGED <<parent, children, attachOrder>>
       ELSE IF ~Occurs(children[parent[e]], e)
       THEN raised' = "ValueError" /\ UNCHANGED <<parent, children, attachOrder>>
       ELSE /\ children' = [children EXCEPT ![parent[e]] = remove(@, e)]
            /\ attachOrder' = [attachOrder EXCEPT ![parent[e]] = remove(@, e)]
            /\ parent' = [parent EXCEPT ![e] = Nil]
            /\ raised' = "none"

\* ScrollingFrame.update, up to and including the base class's update.
FrameUpdate ==
    /\ NoCall
    /\ UNCHANGED extVars
    /\ NoReturn
    /\ UNCHANGED <<parent, children, priority, visible, rel_pos, scene_active, active,
                   handlers, uevent, mouse_inside, mouse_over, scrollable, scroll_pos,
                   scroll_limits, window_size, lastEdge, lastMotionIn, attachOrder>>
    /\ NoPass
    /\ IF parent[Frame] = Nil \/ surf[parent[Frame]] = None
       THEN raised' = "AttributeError"
            /\ UNCHANGED <<surf, c_surf, rect, window, scrollbar_surf>>
       ELSE LET wss == to_simple(window_size, surf[parent[Frame]])
                abs == calculate_absolute_position(Frame)
            IN /\ window' = [w |-> wss[1], h |-> wss[2], view |-> scroll_pos]
               /\ surf' = [surf EXCEPT ![Frame] = Surface(scroll_limits)]
               /\ scrollbar_surf' = [w |-> ScrollbarWidth, h |-> scrollbar_height(wss[2])]
               /\ c_surf' = [c_surf EXCEPT ![Frame] = Surface(scroll_limits)]
               /\ IF abs = None
                  THEN raised' = "AttributeError" /\ UNCHANGED rect
                  ELSE /\ rect' = [rect EXCEPT ![Frame] =
                                     [x |-> abs[1], y |-> abs[2], w |-> wss[1], h |-> wss[2]]]
                       /\ raised' = "none"

\* The embedder replaces the display surface the Scene is bound to.
Resize(sz) ==
    /\ surf' = [n \in Nodes |-> IF n \in Scenes THEN Surface(sz) ELSE surf[n]]
    /\ raised' = "none"
    /\ NoCall
    /\ UNCHANGED extVars
    /\ NoReturn
    /\ UNCHANGED <<parent, children, priority, visible, rel_pos, c_surf, rect,
                   scene_active, frameVars, lastEdge, lastMotionIn, attachOrder>>
    /\ NoPass

SetActive(b) ==
    /\ active' = b
    /\ raised' = "none"
    /\ NoCall
    /\ UNCHANGED extVars
    /\ NoReturn
    /\ UNCHANGED <<treeVars, handlers, uevent, mouse_inside, mouse_over, scrollable,
                   scroll_pos, scroll_limits, window_size, window, scrollbar_surf,
                   lastEdge, lastMotionIn, attachOrder>>
    /\ NoPass

SetScrollable(b) ==
    /\ scrollable' = b
    /\ raised' = "none"
    /\ NoCall
    /\ UNCHANGED extVars
    /\ NoReturn
    /\ UNCHANGED <<treeVars, active, handlers, uevent, mouse_inside, mouse_over,
                   scroll_pos, scroll_limits, window_size, window, scrollbar_surf,
                   lastEdge, lastMotionIn, attachOrder>>
    /\ NoPass

Bind(slot) ==
    /\ handlers' = [handlers EXCEPT ![slot] = SlotHandler[slot]]
    /\ raised' = "none"
    /\ NoCall
    /\ UNCHANGED extVars
    /\ NoReturn
    /\ UNCHANGED <<treeVars, active, uevent, mouse_inside, mouse_over, scrollable,
                   scroll_pos, scroll_limits, window_size, window, scrollbar_surf,
                   lastEdge, lastMotionIn, attachOrder>>
    /\ NoPass

Unbind(slot) ==
    /\ handlers' = [handlers EXCEPT ![slot] = Nil]
    /\ raised' = "none"
    /\ NoCall
    /\ UNCHANGED extVars
    /\ NoReturn
    /\ UNCHANGED <<treeVars, active, uevent, mouse_inside, mouse_over, scrollable,
                   scroll_pos, scroll_limits, window_size, window, scrollbar_surf,
                   lastEdge, lastMotionIn, attachOrder>>
    /\ NoPass

BindU(h) ==
    /\ Len(uevent) < MaxUHandlers
    /\ uevent' = Append(uevent, h)
    /\ raised' = "none"
    /\ NoCall
    /\ UNCHANGED extVars
    /\ NoReturn
    /\ UNCHANGED <<treeVars, active, handlers, mouse_inside, mouse_over, scrollable,
                   scroll_pos, scroll_limits, window_size, window, scrollbar_surf,
                   lastEdge, lastMotionIn, attachOrder>>
    /\ NoPass

\* unbind_u(index): list.pop with index -1 (the default) or 0.
UnbindU(index) ==
    /\ IF uevent = <<>>
       THEN raised' = "IndexError" /\ UNCHANGED uevent
       ELSE /\ uevent' = IF index = 0 THEN Tail(uevent)
                         ELSE SubSeq(uevent, 1, Len(uevent) - 1)
            /\ raised' = "none"
    /\ NoCall
    /\ UNCHANGED extVars
    /\ NoReturn
    /\ UNCHANGED <<treeVars, active, handlers, mouse_inside, mouse_over, scrollable,
                   scroll_pos, scroll_limits, window_size, window, scrollbar_surf,
                   lastEdge, lastMotionIn, attachOrder>>
    /\ NoPass

HandleEvent(ev) ==
    LET st == handle_event(FrameState, ev)
    IN /\ mouse_inside' = st.mouse_inside
       /\ mouse_over' = st.mouse_over
       /\ scroll_pos' = st.scroll_pos
       /\ window' = st.window
       /\ fired' = st.fired
       /\ raised' = st.raised
       /\ lastEdge' = st.edge
       /\ event' = ev
       /\ lastMotionIn' = IF ev.type = MOUSEMOTION
                          THEN rect[Frame] # None /\ collidepoint(rect[Frame], ev.pos)
                          ELSE lastMotionIn
       /\ NoPass
       /\ UNCHANGED extVars
       /\ NoReturn
       /\ UNCHANGED <<treeVars, active, handlers, uevent, scrollable, scroll_limits,
                      window_size, scrollbar_surf, attachOrder>>

\* UIElement.update on a plain element: snapshot the surface, then the rect.
Update(e) ==
    /\ NoCall
    /\ UNCHANGED extVars
    /\ NoReturn
    /\ UNCHANGED <<parent, children, priority, visible, rel_pos, surf, scene_active,
                   frameVars, lastEdge, lastMotionIn, attachOrder>>
    /\ NoPass
    /\ IF surf[e] = None
       THEN raised' = "AssertionError" /\ UNCHANGED <<c_surf, rect>>
       ELSE /\ Len(surf[e].blits) <= MaxBlits
            /\ c_surf' = [c_surf EXCEPT ![e] = surf[e]]
            /\ LET abs == calculate_absolute_position(e)
               IN IF abs = None
                  THEN raised' = "AttributeError" /\ UNCHANGED rect
                  ELSE /\ rect' = [rect EXCEPT ![e] =
                                     [x |-> abs[1], y |-> abs[2],
                                      w |-> surf[e].w, h |-> surf[e].h]]
                       /\ raised' = "none"

SetPriority(e, v) ==
    /\ priority' = [priority EXCEPT ![e] = v]
    /\ raised' = "none"
    /\ NoCall
    /\ UNCHANGED extVars
    /\ NoReturn
    /\ UNCHANGED <<parent, children, visible, rel_pos, surf, c_surf, rect, scene_active,
                   frameVars, lastEdge, lastMotionIn, attachOrder>>
    /\ NoPass

SetSceneActive(sc, b) ==
    /\ scene_active' = [scene_active EXCEPT ![sc] = b]
    /\ raised' = "none"
    /\ NoCall
    /\ UNCHANGED extVars
    /\ NoReturn
    /\ UNCHANGED <<parent, children, priority, visible, rel_pos, surf, c_surf, rect,
                   frameVars, lastEdge, lastMotionIn, attachOrder>>
    /\ NoPass

\* A pass ends with the state ds; no surface may hold more than MaxBlits blits.
EndPass(ds) ==
    /\ \A n \in Nodes : ds.surf[n] # None => Len(ds.surf[n].blits) <= MaxBlits
    /\ children' = ds.children
    /\ surf' = ds.surf
    /\ drawn' = ds.drawn
    /\ blitted' = ds.log
    /\ scenes' = ds.scenes
    /\ scene_calls' = ds.scene_calls
    /\ raised' = ds.raised
    /\ NoCall
    /\ NoReturn
    /\ UNCHANGED <<name, scene_priority, textVars, ctorVars>>
    /\ UNCHANGED <<parent, priority, visible, rel_pos, c_surf, rect, scene_active,
                   frameVars, lastEdge, lastMotionIn, attachOrder>>

Render == EndPass(render(DrawState)) /\ drawcall' = [op |-> "render", on |-> Scene]

\* The embedder assigns element.visible.
SetVisible(e, b) ==
    /\ visible' = [visible EXCEPT ![e] = b]
    /\ raised' = "none"
    /\ NoCall
    /\ UNCHANGED extVars
    /\ NoReturn
    /\ UNCHANGED <<parent, children, priority, rel_pos, surf, c_surf, rect, scene_active,
                   frameVars, lastEdge, lastMotionIn, attachOrder>>
    /\ NoPass

\* The drawing methods called directly on a plain element or on the Scene.
Draw(e) ==
    EndPass(draw(e, DrawState)) /\ drawcall' = [op |-> "draw", on |-> e]

DrawChildren(e) ==
    EndPass(draw_children(e, DrawState)) /\ drawcall' = [op |-> "draw_children", on |-> e]

DrawSeq(e) ==
    EndPass(draw_seq(e, DrawState)) /\ drawcall' = [op |-> "draw_seq", on |-> e]

SceneDraw ==
    EndPass(scene_draw(Scene, DrawState)) /\ drawcall' = [op |-> "scene_draw", on |-> Scene]

\* The embedder assigns element.name.
SetName(e, nm) ==
    /\ name' = [name EXCEPT ![e] = nm]
    /\ NoReturn
    /\ raised' = "none"
    /\ NoCall
    /\ NoPass
    /\ UNCHANGED <<treeVars, frameVars, lastEdge, lastMotionIn, attachOrder,
                   scenes, scene_priority, textVars, ctorVars>>

GetChildOfName(e, nm) ==
    LET r == get_child_of_name(e, nm)
    IN /\ returned' = [op |-> "get_child_of_name", on |-> e, arg |-> nm, value |-> r.value]
       /\ raised' = r.raised
       /\ NoCall
       /\ NoPass
       /\ UNCHANGED <<treeVars, frameVars, lastEdge, lastMotionIn, attachOrder, name,
                      scenes, scene_priority, textVars, ctorVars>>

\* The embedder assigns scene.priority.
SetScenePriority(sc, v) ==
    /\ scene_priority' = [scene_priority EXCEPT ![sc] = v]
    /\ raised' = "none"
    /\ NoCall
    /\ NoPass
    /\ UNCHANGED <<treeVars, frameVars, lastEdge, lastMotionIn, attachOrder,
                   name, scenes, textVars, ctorVars>>
    /\ NoReturn

\* The text setter: store the value, then draw_text() lays it out again.  When
\* the layout raises, text_surf (and render_list here) stay as they were.
SetText(value) ==
    LET r == render_text(value)
    IN /\ text' = value
       /\ render_list' = IF r.raised = "none" THEN r.out ELSE render_list
       /\ raised' = r.raised
       /\ NoCall
       /\ NoPass
       /\ UNCHANGED <<treeVars, frameVars, lastEdge, lastMotionIn, attachOrder,
                      name, scenes, scene_priority, anchor, max_width, space, ctorVars>>
       /\ NoReturn

\* The embedder assigns element.rel_pos.
SetRelPos(e, pos) ==
    /\ rel_pos' = [rel_pos EXCEPT ![e] = pos]
    /\ raised' = "none"
    /\ NoCall
    /\ UNCHANGED extVars
    /\ NoReturn
    /\ UNCHANGED <<parent, children, priority, visible, surf, c_surf, rect, scene_active,
                   frameVars, lastEdge, lastMotionIn, attachOrder>>
    /\ NoPass

\* The embedder gives the element another surface.
SetSurf(e, size) ==
    /\ surf' = [surf EXCEPT ![e] = Surface(size)]
    /\ raised' = "none"
    /\ NoCall
    /\ UNCHANGED extVars
    /\ NoReturn
    /\ UNCHANGED <<parent, children, priority, visible, rel_pos, c_surf, rect, scene_active,
                   frameVars, lastEdge, lastMotionIn, attachOrder>>
    /\ NoPass

CalcAbs(e) ==
    LET v == calculate_absolute_position(e)
    IN /\ returned' = [op |-> "calculate_absolute_position", on |-> e, value |-> v]
       /\ raised' = IF v = None THEN "AttributeError" ELSE "none"
       /\ NoCall
       /\ NoPass
       /\ UNCHANGED extVars
       /\ UNCHANGED <<treeVars, frameVars, lastEdge, lastMotionIn, attachOrder>>

\* A new element of class k, constructed with fill colour fc (for the classes
\* that take one) and render_priority rp, takes the place of e, which no node
\* refers to.
Construct(e, k, fc, rp) ==
    LET obj == construct(k, fc, rp)
    IN /\ parent[e] = Nil /\ children[e] = <<>>
       /\ \A n \in Nodes : ~Occurs(children[n], e)
       /\ kind' = [kind EXCEPT ![e] = k]
       /\ fill_color' = [fill_color EXCEPT ![e] = obj.fill_color]
       /\ priority' = [priority EXCEPT ![e] = obj.priority]
       /\ visible' = [visible EXCEPT ![e] = TRUE]
       /\ surf' = [surf EXCEPT ![e] = IF k = "ScrollingFrame" THEN None
                                      ELSE Surface(<<10, 10>>)]
       /\ c_surf' = [c_surf EXCEPT ![e] = None]
       /\ rect' = [rect EXCEPT ![e] = None]
       /\ name' = [name EXCEPT ![e] = ""]
       /\ returned' = [op |-> "__init__", on |-> e, kind |-> k, render_priority |-> rp]
       /\ raised' = "none"
       /\ NoCall
       /\ NoPass
       /\ UNCHANGED <<parent, children, rel_pos, scene_active, frameVars, lastEdge,
                      lastMotionIn, attachOrder, scenes, scene_priority, textVars>>

\* The frame is attached to the Scene once.
Attach == parent[Frame] = Nil /\ SetParent(Frame, Scene)

\* ------------------------------------------------------------ specifications
\* The frame in a Scene whose surface may be replaced by one of another size.
NextScroll ==
    \/ Attach
    \/ FrameUpdate
    \/ \E sz \in ScreenSizes : Resize(sz)
    \/ \E b \in BOOLEAN : SetActive(b)
    \/ \E b \in BOOLEAN : SetScrollable(b)
    \/ \E ev \in Events : HandleEvent(ev)

Spec == Init /\ [][NextScroll]_vars

\* The frame in a Scene whose surface keeps its size, handlers as constructed.
NextFixed ==
    \/ Attach
    \/ FrameUpdate
    \/ \E b \in BOOLEAN : SetActive(b)
    \/ \E b \in BOOLEAN : SetScrollable(b)
    \/ \E ev \in Events : HandleEvent(ev)

SpecFixed == Init /\ [][NextFixed]_vars

\* The handler table: binding and unbinding around handle_event calls.
NextHandlers ==
    \/ Attach
    \/ FrameUpdate
    \/ \E b \in BOOLEAN : SetActive(b)
    \/ \E slot \in Slots : Bind(slot)
    \/ \E slot \in Slots : Unbind(slot)
    \/ \E h \in UserU : BindU(h)
    \/ \E i \in {-1, 0} : UnbindU(i)
    \/ \E ev \in Events : HandleEvent(ev)

\* One geometry: content 55 high behind a window as high as the 20-high screen.
InitHandlers ==
    /\ Init
    /\ surf[Scene] = Surface(<<40, 20>>)
    /\ scroll_limits = <<30, 55>>
    /\ window_size = <<0, 30, 1, 0>>

SpecHandlers == InitHandlers /\ [][NextHandlers]_vars

\* Parenting alone, over all the plain elements.  set_parent is given no target
\* that would close a cycle.
NextParent ==
    \/ \E e \in Plain, p \in Plain \cup {Scene} : SetParent(e, p)
    \/ \E e \in Plain : Unparent(e)

\* Two plain elements under the Scene: parenting, priorities, updates and draw
\* passes.  An element is attached only while it has no parent.
Drawn == {"e1", "e2"}

AttachTo(e, p) == parent[e] = Nil /\ SetParent(e, p)

NextTree ==
    \/ \E e \in Drawn, p \in Drawn \cup {Scene} : AttachTo(e, p)
    \/ \E e \in Drawn : Unparent(e)
    \/ \E e \in Drawn, v \in 1..MaxPriority : SetPriority(e, v)
    \/ \E e \in Drawn : Update(e)
    \/ \E b \in BOOLEAN : SetSceneActive(Scene, b)
    \/ Render

\* The frame's construction parameters and the screen size play no part here.
InitTree ==
    /\ Init
    /\ surf[Scene] = Surface(<<40, 40>>)
    /\ scroll_limits = <<30, 55>>
    /\ window_size = <<0, 30, 1, 0>>

SpecTree == InitTree /\ [][NextTree]_vars

SpecParent == InitTree /\ [][NextParent]_vars

\* The drawing methods called on two plain elements, each attached once or not
\* at all, updated or not, hidden or not.  Bare is constructed without
\* a surface in some of the initial states.
Bare == "e2"

NextDraw ==
    \/ \E e \in Drawn, p \in Drawn \cup {Scene} : AttachTo(e, p)
    \/ \E e \in Drawn : Update(e)
    \/ \E e \in Drawn, b \in BOOLEAN : SetVisible(e, b)
    \/ \E e \in Drawn : Draw(e)
    \/ \E e \in Drawn : DrawChildren(e)
    \/ \E e \in Drawn : DrawSeq(e)

InitDraw ==
    /\ parent = [e \in Elems |-> Nil]
    /\ children = [n \in Nodes |-> <<>>]
    /\ priority = [e \in Elems |-> DefaultPriority]
    /\ visible = [e \in Elems |-> TRUE]
    /\ rel_pos = [e \in Elems |-> <<0, 5, 0, 5>>]
    /\ \E s \in {None, Surface(<<10, 10>>)} :
          surf = [n \in Nodes |-> IF n \in Scenes THEN Surface(<<40, 40>>)
                                  ELSE IF n = Frame THEN None
                                  ELSE IF n = Bare THEN s
                                  ELSE Surface(<<10, 10>>)]
    /\ c_surf = [e \in Elems |-> None]
    /\ rect = [e \in Elems |-> None]
    /\ scene_active = [sc \in Scenes |-> FALSE]
    /\ active = TRUE
    /\ handlers = [mbd |-> Nil, mover |-> Nil, menter |-> "_menter", mexit |-> "_mexit"]
    /\ uevent = <<"scroll_handler">>
    /\ mouse_inside = FALSE
    /\ mouse_over = FALSE
    /\ scrollable = TRUE
    /\ scroll_pos = 0
    /\ scroll_limits = <<30, 55>>
    /\ window_size = <<0, 30, 1, 0>>
    /\ window = None
    /\ scrollbar_surf = None
    /\ event = NoEvent
    /\ fired = <<>>
    /\ raised = "none"
    /\ lastEdge = "none"
    /\ lastMotionIn = FALSE
    /\ attachOrder = [n \in Nodes |-> <<>>]
    /\ drawn = [n \in Nodes |-> <<>>]
    /\ blitted = <<>>
    /\ drawcall = NoDraw
    /\ InitExt

SpecDraw == InitDraw /\ [][NextDraw]_vars

\* Elements of every class constructed with a render priority, attached below
\* the Scene and rendered.
NextCtor ==
    \/ \E e \in Drawn, k \in Kinds, fc \in {None, Red}, rp \in 1..MaxPriority :
          Construct(e, k, fc, rp)
    \/ \E e \in Drawn : AttachTo(e, Scene)
    \/ \E e \in Drawn : Update(e)
    \/ SetSceneActive(Scene, TRUE)
    \/ Render

SpecCtor == InitTree /\ [][NextCtor]_vars

\* Renders of a tree built by set_parent calls on any element, attached already
\* or not.
NextCompose ==
    \/ \E e \in Drawn, p \in Drawn \cup {Scene} : SetParent(e, p)
    \/ \E e \in Drawn : Update(e)
    \/ \E e \in Drawn, b \in BOOLEAN : SetVisible(e, b)
    \/ \E b \in BOOLEAN : SetSceneActive(Scene, b)
    \/ Render

SpecCompose == InitTree /\ [][NextCompose]_vars

\* Nested elements with fractional scales on surfaces of several sizes, and
\* calls of calculate_absolute_position.
NextPos ==
    \/ \E e \in Drawn, p \in Drawn \cup {Scene} : AttachTo(e, p)
    \/ \E e \in Drawn, pos \in Positions : SetRelPos(e, pos)
    \/ \E e \in Drawn, size \in Sizes : SetSurf(e, size)
    \/ \E size \in Sizes : Resize(size)
    \/ \E e \in Drawn : CalcAbs(e)

SpecPos == InitTree /\ [][NextPos]_vars

\* A Text element constructed with the empty text, an anchor, a surface width
\* and a font, and assignments to its text property.
InitText ==
    /\ parent = [e \in Elems |-> Nil]
    /\ children = [n \in Nodes |-> <<>>]
    /\ priority = [e \in Elems |-> DefaultPriority]
    /\ visible = [e \in Elems |-> TRUE]
    /\ rel_pos = [e \in Elems |-> <<0, 5, 0, 5>>]
    /\ surf = [n \in Nodes |-> IF n \in Scenes THEN Surface(<<40, 40>>)
                                ELSE IF n = Frame THEN None
                                ELSE Surface(<<10, 10>>)]
    /\ c_surf = [e \in Elems |-> None]
    /\ rect = [e \in Elems |-> None]
    /\ scene_active = [sc \in Scenes |-> FALSE]
    /\ active = TRUE
    /\ handlers = [mbd |-> Nil, mover |-> Nil, menter |-> "_menter", mexit |-> "_mexit"]
    /\ uevent = <<"scroll_handler">>
    /\ mouse_inside = FALSE
    /\ mouse_over = FALSE
    /\ scrollable = TRUE
    /\ scroll_pos = 0
    /\ scroll_limits = <<30, 55>>
    /\ window_size = <<0, 30, 1, 0>>
    /\ window = None
    /\ scrollbar_surf = None
    /\ event = NoEvent
    /\ fired = <<>>
    /\ raised = "none"
    /\ lastEdge = "none"
    /\ lastMotionIn = FALSE
    /\ attachOrder = [n \in Nodes |-> <<>>]
    /\ drawn = [n \in Nodes |-> <<>>]
    /\ blitted = <<>>
    /\ drawcall = NoDraw
    /\ name = [e \in Elems |-> ""]
    /\ returned = NoQuery
    /\ scenes = Registered
    /\ scene_priority = [sc \in Scenes |-> DefaultPriority]
    /\ scene_calls = <<>>
    /\ kind = [e \in Elems |-> IF e = Frame THEN "ScrollingFrame" ELSE "UIElement"]
    /\ fill_color = [e \in Elems |->
                        construct(kind[e], None, DefaultPriority).fill_color]
    /\ text = <<>>
    /\ anchor \in {0, 1}
    /\ max_width \in TextWidths
    /\ space \in SpaceWidths
    /\ render_list = <<>>

NextText == \E value \in Texts : SetText(value)

SpecText == InitText /\ [][NextText]_vars

\* Two scenes registered with the Screen, their flags and priorities, and the
\* elements attached (once) below them.
NextScreen ==
    \/ \E e \in Drawn, p \in Drawn \cup Scenes : AttachTo(e, p)
    \/ \E e \in Drawn : Update(e)
    \/ \E sc \in Scenes, b \in BOOLEAN : SetSceneActive(sc, b)
    \/ \E sc \in Scenes, v \in 1..MaxPriority : SetScenePriority(sc, v)
    \/ Render

SpecScreen == InitTree /\ [][NextScreen]_vars

\* Named elements in a tree, and lookups of a child by name.
NextLookup ==
    \/ \E e \in Drawn, p \in Drawn \cup {Scene} : AttachTo(e, p)
    \/ \E e \in Drawn : Unparent(e)
    \/ \E e \in Drawn, nm \in Names : SetName(e, nm)
    \/ \E e \in Drawn, nm \in Names : GetChildOfName(e, nm)

SpecLookup == InitTree /\ [][NextLookup]_vars

\* ------------------------------------------------------------------ claims
Count(f, slot) == Cardinality({i \in 1..Len(f) : f[i][1] = slot})

\* C1: with the content height, the resolved viewport height and the scroll
\* speed fixed, scroll_pos stays within [-(L - H), 0] when H < L and is 0 when
\* H >= L, whatever events are handled.
C1_ScrollClampFixed ==
    IF ViewportH < scroll_limits[2]
    THEN scroll_pos <= 0 /\ scroll_pos >= -(scroll_limits[2] - ViewportH)
    ELSE scroll_pos = 0

\* A wheel-down event has brought the frame to the bottom of its content.
C1_Witness ==
    /\ event.type = MOUSEBUTTONDOWN /\ event.button = 5
    /\ ViewportH < scroll_limits[2]
    /\ scroll_pos = -(scroll_limits[2] - ViewportH)

\* C2: the same clamp holds in every reachable state when the parent surface is
\* resized between events: here for the states in which update() has allocated
\* the window at the currently resolved height.
C2_ScrollClampResized ==
    (window # None /\ window.h = ViewportH) =>
        /\ scroll_pos <= 0
        /\ window.h < scroll_limits[2] => scroll_pos + scroll_limits[2] >= window.h
        /\ window.h >= scroll_limits[2] => scroll_pos = 0

\* C3: a call changes scroll_pos only if scrollable is true and the most recent
\* motion event given to handle_event was inside the frame's rect.
C3_ScrollOnlyWhenPointerOver ==
    [][scroll_pos' # scroll_pos => (scrollable /\ lastMotionIn)]_vars

\* C4: with the scroll handler enabled, a wheel-up event adds
\* min(scroll_speed, -scroll_pos), a wheel-down event subtracts
\* min(scroll_speed, L + scroll_pos - H) when H < L and nothing otherwise, and a
\* wheel-down at -(L - H) leaves scroll_pos there.
C4_WheelStep ==
    [][(/\ event'.type = MOUSEBUTTONDOWN
        /\ active /\ mouse_over /\ scrollable
        /\ Occurs(uevent, "scroll_handler"))
       => LET L == scroll_limits[2]
              H == ViewportH
          IN /\ event'.button = 4 =>
                    scroll_pos' = scroll_pos + Min(ScrollSpeed, -scroll_pos)
             /\ (event'.button = 5 /\ H < L) =>
                    scroll_pos' = scroll_pos - Min(ScrollSpeed, L + scroll_pos - H)
             /\ (event'.button = 5 /\ H >= L) => scroll_pos' = scroll_pos
             /\ (event'.button = 5 /\ H < L /\ scroll_pos = -(L - H)) =>
                    scroll_pos' = scroll_pos
             /\ event'.button \notin {4, 5} => scroll_pos' = scroll_pos]_vars

\* One wheel-down from the top: scroll_pos is -scroll_speed.
C4_Witness ==
    /\ event.type = MOUSEBUTTONDOWN /\ event.button = 5
    /\ scroll_pos = -ScrollSpeed
    /\ fired = << <<"uevent", "scroll_handler">> >>

\* C6: on an active element with menter and mexit bound, a motion event fires
\* menter exactly when it is inside rect and mouse_inside was false, fires mexit
\* exactly when it is outside and mouse_inside was true, and leaves mouse_inside
\* equal to "inside"; so the two alternate, menter first.
C6_EnterExitAlternate ==
    [][(active /\ event'.type = MOUSEMOTION /\ rect[Frame] # None)
       => LET inside == collidepoint(rect[Frame], event'.pos)
          IN /\ raised' = "none"
             /\ mouse_inside' = inside
             /\ Count(fired', "menter") = (IF inside /\ ~mouse_inside THEN 1 ELSE 0)
             /\ Count(fired', "mexit") = (IF ~inside /\ mouse_inside THEN 1 ELSE 0)
             /\ Count(fired', "menter") = 1 => lastEdge # "menter"
             /\ Count(fired', "mexit") = 1 => lastEdge = "menter"]_vars

\* mexit has just fired, after an earlier menter.
C6_Witness ==
    /\ event.type = MOUSEMOTION
    /\ Count(fired, "mexit") = 1
    /\ lastEdge = "mexit"
    /\ ~mouse_inside

\* C7: handle_event on an inactive element invokes no handler and leaves
\* mouse_inside, mouse_over, scroll_pos and the window as they were.
C7_InactiveNoOp ==
    [][(~active /\ event' # NoEvent)
       => /\ fired' = <<>>
          /\ raised' = "none"
          /\ mouse_inside' = mouse_inside
          /\ mouse_over' = mouse_over
          /\ scroll_pos' = scroll_pos
          /\ window' = window]_vars

\* A wheel-down reached an inactive frame whose scroll handler was otherwise
\* enabled.
C7_Witness ==
    /\ ~active
    /\ event.type = MOUSEBUTTONDOWN /\ event.button = 5
    /\ mouse_over /\ scrollable /\ Occurs(uevent, "scroll_handler")
    /\ ViewportH < scroll_limits[2]

\* C8: on an active element the mbd handler is invoked once if the event is a
\* button-down of button 1 inside rect and the slot is bound, and not at all
\* otherwise; an unbound slot raises nothing.
C8_ButtonDown ==
    [][(active /\ event' # NoEvent /\ rect[Frame] # None)
       => LET hit == /\ event'.type = MOUSEBUTTONDOWN
                     /\ event'.button = 1
                     /\ collidepoint(rect[Frame], event'.pos)
          IN /\ raised' = "none"
             /\ Count(fired', "mbd") = (IF hit /\ handlers.mbd # Nil THEN 1 ELSE 0)]_vars

\* The bound mbd handler has fired on a primary click inside rect.
C8_Witness ==
    /\ event.type = MOUSEBUTTONDOWN /\ event.button = 1
    /\ Count(fired, "mbd") = 1

\* C9: every handle_event call on an active element that returns invokes the
\* universal handlers, each entry once, in list order, after the specific ones.
C9_UniversalHandlers ==
    [][(active /\ event' # NoEvent /\ raised' = "none")
       => LET n == Len(fired') - Len(uevent)
          IN /\ n >= 0
             /\ \A i \in 1..Len(uevent) : fired'[n + i] = <<"uevent", uevent[i]>>
             /\ \A i \in 1..n : fired'[i][1] # "uevent"]_vars

\* A click fired mbd and then two different universal handlers in binding order.
C9_Witness ==
    /\ uevent = <<"scroll_handler", "u1">>
    /\ fired = << <<"mbd", "on_mbd">>, <<"uevent", "scroll_handler">>, <<"uevent", "u1">> >>

\* C5: after any set_parent and unparent calls, an element's parent is p exactly
\* when the element occurs in p.children, and it occurs there once.
C5_ParentChildrenConsistent ==
    \A e \in Plain, p \in Nodes :
        /\ parent[e] = p <=> Occurs(children[p], e)
        /\ Cardinality({i \in 1..Len(children[p]) : children[p][i] = e}) <= 1

AttachedBefore(n, a, b) ==
    \E i, j \in 1..Len(attachOrder[n]) :
        i < j /\ attachOrder[n][i] = a /\ attachOrder[n][j] = b

\* C10: a draw pass (here one that completes) draws the children of each node in
\* ascending priority, and children of equal priority in the order they were
\* attached, also when priorities change between passes.
C10_DrawOrder ==
    \A n \in Nodes : \A i, j \in 1..Len(drawn[n]) :
        (raised = "none" /\ i < j) =>
            LET a == drawn[n][i]
                b == drawn[n][j]
            IN /\ priority[a] <= priority[b]
               /\ (priority[a] = priority[b] /\ a # b) => AttachedBefore(n, a, b)

\* C11: draw(), draw_children() and draw_seq() end with an error and leave the
\* parent's surface as it was whenever the element they are called on has no
\* surface, has no parent, or has never been updated.
C11_DrawFailsImmediately ==
    [][(/\ drawcall'.op \in {"draw", "draw_children", "draw_seq"}
        /\ LET e == drawcall'.on
           IN surf[e] = None \/ parent[e] = Nil \/ c_surf[e] = None)
       => LET e == drawcall'.on
          IN /\ raised' # "none"
             /\ parent[e] # Nil => surf'[parent[e]] = surf[parent[e]]]_vars

\* C12: get_child_of_name returns a child whose name equals the argument when
\* the element has one, and returns None when it has none; it raises no error,
\* whether the children list is empty or not.
C12_ChildLookup ==
    [][returned'.op = "get_child_of_name"
       => LET e == returned'.on
              matches == {c \in Elems : Occurs(children[e], c) /\ name[c] = returned'.arg}
          IN /\ raised' = "none"
             /\ matches # {} => returned'.value \in matches
             /\ matches = {} => returned'.value = Nil]_vars

\* C13: get_descendants on a Scene or an element returns every node of the
\* subtree below it (the elements that have it among their ancestors) exactly
\* once, and no other node.
C13_DescendantsExactlyOnce ==
    \A n \in Nodes : \A x \in Elems :
        Cardinality({i \in 1..Len(get_descendants(n)) : get_descendants(n)[i] = x})
            = (IF n \in Ancestors(x) THEN 1 ELSE 0)

RegisteredBefore(a, b) ==
    \E i, j \in 1..Len(Registered) : i < j /\ Registered[i] = a /\ Registered[j] = b

\* C15: a render (here one that completes) fills the display and then draws
\* exactly the active scenes, each once, in ascending priority and, among equal
\* priorities, in registration order; the elements below an inactive scene are
\* not drawn and keep their surf, c_surf and rect.
C15_RenderActiveScenes ==
    [][(drawcall'.op = "render" /\ raised' = "none")
       => /\ \A sc \in Scenes :
                Cardinality({i \in 1..Len(scene_calls') : scene_calls'[i] = sc})
                    = (IF scene_active[sc] THEN 1 ELSE 0)
          /\ \A i, j \in 1..Len(scene_calls') :
                i < j => LET a == scene_calls'[i]
                             b == scene_calls'[j]
                         IN /\ scene_priority[a] <= scene_priority[b]
                            /\ scene_priority[a] = scene_priority[b] => RegisteredBefore(a, b)
          /\ Len(surf'[Scene].blits)
                = Cardinality({i \in 1..Len(blitted') : blitted'[i][2] \in Scenes})
          /\ \A sc \in Scenes : \A x \in Elems :
                (~scene_active[sc] /\ sc \in Ancestors(x))
                    => /\ surf'[x] = surf[x] /\ c_surf'[x] = c_surf[x] /\ rect'[x] = rect[x]
                       /\ \A i \in 1..Len(blitted') : blitted'[i][1] # x
                       /\ \A n \in Nodes : ~Occurs(drawn'[n], x)]_vars

\* C16: with wrap enabled, one line of four words of equal width w, on a surface
\* wide enough for exactly two of them per line (2w + s <= W < 3w + 2s, s the
\* width of a space), is laid out as exactly two lines of two words each, with
\* either anchor.
C16_WrapTwoByTwo ==
    \A w \in WordWidths :
        (/\ text = << <<w, w, w, w>> >>
         /\ raised = "none"
         /\ 2 * w + space <= max_width
         /\ max_width < 3 * w + 2 * space)
        => /\ Len(render_list) = 2
           /\ \A i \in 1..Len(render_list) : Len(render_list[i].words) = 2

\* Twice the sum, over the elements of S, of offset + scale * (parent's width or
\* height): axis 1 is x, axis 2 is y.
RECURSIVE ResolvedSumX2(_, _)
ResolvedSumX2(S, axis) ==
    IF S = {} THEN 0
    ELSE LET c == CHOOSE c \in S : TRUE
             extent == IF axis = 1 THEN surf[parent[c]].w ELSE surf[parent[c]].h
         IN 2 * rel_pos[c][2 * axis] + rel_pos[c][2 * axis - 1] * extent
                + ResolvedSumX2(S \ {c}, axis)

\* The element a calculate_absolute_position call was made on and its element
\* ancestors: everything up to, not including, the Scene.
PositionChain == {returned.on} \cup (Ancestors(returned.on) \cap Elems)

\* C17, as claimed: calculate_absolute_position returns exactly the sum of the
\* resolved relative positions of the element and its element ancestors.
C17_ExactSum ==
    (returned.op = "calculate_absolute_position" /\ raised = "none")
        => \A axis \in {1, 2} :
               2 * returned.value[axis] = ResolvedSumX2(PositionChain, axis)

\* C17, amended: it returns that sum with each coordinate truncated toward zero
\* to an integer, hence the sum itself whenever the sum is whole.
C17_TruncatedSum ==
    (returned.op = "calculate_absolute_position" /\ raised = "none")
        => \A axis \in {1, 2} :
               LET sum2 == ResolvedSumX2(PositionChain, axis)
                   v == returned.value[axis]
               IN IF sum2 >= 0
                  THEN 2 * v <= sum2 /\ sum2 < 2 * v + 2
                  ELSE 2 * v - 2 < sum2 /\ sum2 <= 2 * v

\* The example: a root at offset (10, 10) in the Scene, with a 100 x 100 surface,
\* and on it a child at scale 0.5, offset (5, 5): the child is at (65, 65).
C17_Witness ==
    /\ returned.op = "calculate_absolute_position" /\ returned.on = "e2"
    /\ raised = "none"
    /\ returned.value = <<65, 65>>
    /\ parent["e2"] = "e1" /\ parent["e1"] = Scene
    /\ rel_pos["e1"] = <<0, 10, 0, 10>> /\ rel_pos["e2"] = <<1, 5, 1, 5>>
    /\ surf["e1"] = Surface(<<100, 100>>)

\* The children a pass drew over e that are visible, in the order drawn.
RECURSIVE VisibleOf(_)
VisibleOf(s) ==
    IF s = <<>> THEN <<>>
    ELSE (IF visible[Head(s)] THEN <<Head(s)>> ELSE <<>>) \o VisibleOf(Tail(s))

\* C18: at the end of a draw pass (here a render that completes), the surface
\* of every visible element the pass drew holds, besides the element's own
\* content, exactly the blits its visible children made in this pass, whatever
\* passes, update() calls, attachments and removals came before.
C18_NoAccumulatedBlits ==
    (drawcall.op = "render" /\ raised = "none")
        => \A e \in Elems :
               ((\E n \in Nodes : Occurs(drawn[n], e)) /\ visible[e])
                   => surf[e].blits = VisibleOf(drawn[e])

\* C19: within one draw pass (here a render that completes) every blit onto a
\* visible element's surface comes before that element is blitted onto its
\* parent's surface, and every visible element the pass draws is blitted onto
\* its parent exactly once.
C19_PostOrderOnce ==
    (drawcall.op = "render" /\ raised = "none")
        => \A e \in Elems :
               ((\E n \in Nodes : Occurs(drawn[n], e)) /\ visible[e])
                   => /\ Cardinality({i \in 1..Len(blitted) : blitted[i] = <<e, parent[e]>>}) = 1
                      /\ \A i, j \in 1..Len(blitted) :
                             (blitted[i][2] = e /\ blitted[j][1] = e) => i < j

\* C20: whatever the class of the element, the render_priority given to its
\* constructor is the element's priority afterwards, and is stored in no other
\* attribute.
C20_ConstructorPriority ==
    returned.op = "__init__"
        => /\ priority[returned.on] = returned.render_priority
           /\ fill_color[returned.on] # Number(returned.render_priority)

\* The number of words in a sequence of lines, each line a sequence of words.
RECURSIVE WordCount(_)
WordCount(lines) ==
    IF lines = <<>> THEN 0 ELSE Len(Head(lines)) + WordCount(Tail(lines))

\* The number of words placed on the lines render_text laid out last.
RECURSIVE PlacedCount(_)
PlacedCount(lines) ==
    IF lines = <<>> THEN 0 ELSE Len(Head(lines).words) + PlacedCount(Tail(lines))

\* C21: with wrap enabled, laying out the text (by the constructor and by every
\* assignment to the text property) raises no error for any text value, the
\* empty text, a text whose first line is blank and a text with blank lines
\* included, and afterwards the laid-out lines hold the words of the new text.
C21_LayoutNeverRaises ==
    /\ raised = "none"
    /\ PlacedCount(render_list) = WordCount(text)

\* The part of C21 the code does meet: a text that is empty, or whose first line
\* has a word, is laid out without an error and with all of its words.
C21_FirstLineHasWord ==
    (text = <<>> \/ (text # <<>> /\ text[1] # <<>>))
        => /\ raised = "none"
           /\ PlacedCount(render_list) = WordCount(text)

\* The case C21 fails on: a blank first line leaves word_h unbound.
C21_BlankFirstLine ==
    (text # <<>> /\ text[1] = <<>>) => raised = "UnboundLocalError"

====
